---------------------------- MODULE Spec2Model ----------------------------
(***************************************************************************)
(* Model of the HR talent / job-posting recommender:                       *)
(*   - setup_chromadb_collection  (src/recommender/vector_db.py)           *)
(*   - recommend_talent_from_db   (src/recommender/talent_recommender.py)  *)
(*   - prepare_text_for_*_embedding (src/recommender/embedding_utils.py)   *)
(* The ChromaDB collection is the shared state; every call of one of the   *)
(* two entry points is one action.  Text is modelled as a sequence of      *)
(* one-character strings so that lower(), split(), join() and the          *)
(* substring test are computed, not assumed.                               *)
(*                                                                         *)
(* Faults.  The store and the embedding model are external; the model      *)
(* lets them fail where the code handles the failure: any batch of a       *)
(* rebuild may raise in encode or upsert (vector_db.py lines 159-177), and *)
(* the first collection.query of a search may raise                        *)
(* (talent_recommender.py lines 36-54).  An exception of the text          *)
(* functions inside the record loop is not caught by the code and ends     *)
(* setup_chromadb_collection with outcome "raised".  The other store calls *)
(* (get, count, delete, create) answer.                                    *)
(***************************************************************************)
EXTENDS Integers, Sequences, FiniteSets, TLC

(***************************************************************************)
(* Bounds of the model.                                                    *)
(***************************************************************************)
\* longest combined input (employees + job_descriptions) of one sync
MaxRecs == 3
\* largest num_results of a query
MaxK == 4

\* config.CHROMA_UPSERT_BATCH_SIZE; the model runs with the batch size of
\* the specification's batch-boundary scenario instead of 5000.
CHROMA_UPSERT_BATCH_SIZE == 2

(***************************************************************************)
(* Python values: every value carries its type tag.                        *)
(***************************************************************************)
Str(s)  == [t |-> "str",  v |-> s]
List(l) == [t |-> "list", v |-> l]
Dict(d) == [t |-> "dict", v |-> d]
Null    == [t |-> "null", v |-> <<>>]

\* dict.get(key, default)
Get(d, k, default) == IF k \in DOMAIN d THEN d[k] ELSE default

(***************************************************************************)
(* Strings.                                                                *)
(***************************************************************************)
UpperChars == <<"A","B","D","E","H","K","N","O","R","W">>
LowerChars == <<"a","b","d","e","h","k","n","o","r","w">>

\* str.lower() on one character
LowerChar(c) ==
    IF \E i \in 1..Len(UpperChars) : UpperChars[i] = c
    THEN LowerChars[CHOOSE i \in 1..Len(UpperChars) : UpperChars[i] = c]
    ELSE c

\* str.lower()
Lower(s) == [i \in 1..Len(s) |-> LowerChar(s[i])]

\* Python's  needle in haystack  for strings
Contains(hay, needle) ==
    \E i \in 0..(Len(hay) - Len(needle)) :
        \A j \in 1..Len(needle) : hay[i + j] = needle[j]

RECURSIVE JoinStr(_, _)
\* sep.join(parts)
JoinStr(parts, sep) ==
    IF parts = <<>> THEN <<>>
    ELSE IF Len(parts) = 1 THEN parts[1]
    ELSE parts[1] \o sep \o JoinStr(Tail(parts), sep)

CommaSpace == <<",", " ">>
DotSpace   == <<".", " ">>

RECURSIVE SplitFrom(_, _, _)
\* str.split(): maximal runs of non-blank characters, in order
SplitFrom(s, i, cur) ==
    IF i > Len(s)
    THEN IF cur = <<>> THEN <<>> ELSE <<cur>>
    ELSE IF s[i] = " "
         THEN (IF cur = <<>> THEN <<>> ELSE <<cur>>) \o SplitFrom(s, i + 1, <<>>)
         ELSE SplitFrom(s, i + 1, Append(cur, s[i]))

Split(s) == SplitFrom(s, 1, <<>>)

(***************************************************************************)
(* The records a data file can supply.                                     *)
(***************************************************************************)
\* a record that carries a 'doc_type' field of its own
RecA == Dict([id |-> "a",
              doc_type |-> Str(<<"j","o","b">>),
              name |-> Str(<<"A">>),
              department |-> Str(<<"R","d">>),
              skills |-> List(<< <<"w","e","b">> >>),
              projects |-> List(<< <<"W","e","b">>, <<"d","b">> >>),
              languages |-> List(<< <<"E","n">>, <<"K","o">> >>),
              education |-> Dict([degree |-> Str(<<"b","a">>)])])
RecB == Dict([id |-> "b",
              title |-> Str(<<"B">>),
              department |-> Str(<<"h","r">>),
              languages |-> List(<< <<"K","o">> >>),
              responsibilities |-> List(<< <<"d","b">> >>),
              description |-> Str(<<"n","e","w"," ","W","E","B">>)])
\* a record whose 'languages' is null: ", ".join(None) raises for an employee
RecNullLangs == Dict([id |-> "c", department |-> Str(<<"R","D">>), languages |-> Null])
\* a record without the identity field
RecNoId == Dict([department |-> Str(<<"R","d">>)])
\* an element of the list that is not a mapping
RecNotDict == Str(<<"a">>)

\* what the 'employees' list and the 'job_descriptions' list are drawn from
EmployeePool == {RecA, RecB, RecNullLangs, RecNoId}
JobPool      == {RecA, RecB, RecNullLangs, RecNotDict}


(***************************************************************************)
(* embedding_utils.py                                                      *)
(***************************************************************************)
\* ", ".join(x) raises TypeError when x is None
JoinRaises(d, k) == k \in DOMAIN d /\ d[k].t = "null"

\* rendering of a field inside the f-string
Render(d, k, sep) ==
    IF k \notin DOMAIN d THEN <<>>
    ELSE IF d[k].t = "list" THEN JoinStr(d[k].v, sep)
    ELSE IF d[k].t = "str" THEN d[k].v
    ELSE <<>>

TextError == [ok |-> FALSE, text |-> <<>>]

prepare_text_for_employee_embedding(employee) ==
    IF \/ JoinRaises(employee, "skills")
       \/ JoinRaises(employee, "projects")
       \/ JoinRaises(employee, "languages")
       \/ ("education" \in DOMAIN employee /\ employee["education"].t # "dict")
    THEN TextError
    ELSE [ok |-> TRUE,
          text |-> <<"#E", ":">> \o Render(employee, "profile_summary", <<>>)
                   \o <<".">> \o Render(employee, "position", <<>>)
                   \o <<".">> \o Render(employee, "department", <<>>)
                   \o <<".">> \o Render(employee, "skills", CommaSpace)
                   \o <<".">> \o Render(employee, "projects", DotSpace)
                   \o <<".">> \o Render(employee, "languages", CommaSpace)
                   \o <<".">>]

prepare_text_for_job_embedding(job) ==
    IF \/ JoinRaises(job, "required_skills")
       \/ JoinRaises(job, "preferred_skills")
       \/ JoinRaises(job, "responsibilities")
    THEN TextError
    ELSE [ok |-> TRUE,
          text |-> <<"#J", ":">> \o Render(job, "title", <<>>)
                   \o <<".">> \o Render(job, "department", <<>>)
                   \o <<".">> \o Render(job, "required_skills", CommaSpace)
                   \o <<".">> \o Render(job, "preferred_skills", CommaSpace)
                   \o <<".">> \o Render(job, "responsibilities", DotSpace)
                   \o <<".">> \o Render(job, "description", <<>>)
                   \o <<".">>]

(***************************************************************************)
(* vector_db.py: _process_metadata_for_db                                  *)
(***************************************************************************)
EducationKeys == {"degree", "school", "graduation_year"}
EduKey(k) == "education_" \o k

\* the keys of the flattened metadata
MetaKeys(d) ==
    ({k \in DOMAIN d : ~(k = "education" /\ d[k].t = "dict")})
    \cup (IF "education" \in DOMAIN d /\ d["education"].t = "dict"
          THEN {EduKey(k) : k \in (DOMAIN d["education"].v) \cap EducationKeys}
          ELSE {})

MetaValue(d, mk) ==
    IF mk \in DOMAIN d
    THEN IF mk = "id" THEN d[mk]
         ELSE IF d[mk].t = "list"
              THEN Str(IF d[mk].v = <<>> THEN <<>> ELSE JoinStr(d[mk].v, CommaSpace))
              ELSE d[mk]
    ELSE LET ek == CHOOSE k \in EducationKeys : EduKey(k) = mk
         IN  d["education"].v[ek]

_process_metadata_for_db(item_data) ==
    [mk \in MetaKeys(item_data) |-> MetaValue(item_data, mk)]


(***************************************************************************)
(* The ChromaDB collection: whether it exists, and its entries by ID.      *)
(* An entry is the stored document text and its metadata.                  *)
(***************************************************************************)
EmptyItems == [i \in {} |-> Null]

Range(s) == {s[i] : i \in 1..Len(s)}

\* collection.upsert(ids, embeddings, documents, metadatas): one store call,
\* replace-on-write, a later element of the batch superseding an earlier one
Upsert(its, batch) ==
    [id \in (DOMAIN its) \cup {batch[j].id : j \in 1..Len(batch)} |->
        IF \E j \in 1..Len(batch) : batch[j].id = id
        THEN LET j == CHOOSE j \in 1..Len(batch) :
                        /\ batch[j].id = id
                        /\ \A h \in (j + 1)..Len(batch) : batch[h].id # id
             IN  [document |-> batch[j].document, meta |-> batch[j].meta]
        ELSE its[id]]

(***************************************************************************)
(* vector_db.py: setup_chromadb_collection                                 *)
(***************************************************************************)
\* lines 56-60: the combined work list, employees first
AllDataForEmbedding(employee_data, job_data) ==
    [i \in 1..Len(employee_data) |-> [data |-> employee_data[i], type |-> "employee"]]
    \o [i \in 1..Len(job_data) |-> [data |-> job_data[i], type |-> "job"]]

\* isinstance(item, dict) and 'id' in item
HasId(item) == item.t = "dict" /\ "id" \in DOMAIN item.v

\* lines 75-79: the ID set the staleness check counts
CurrentDocIds(employee_data, job_data) ==
    {employee_data[i].v.id : i \in {j \in 1..Len(employee_data) : HasId(employee_data[j])}}
    \cup {job_data[i].v.id : i \in {j \in 1..Len(job_data) : HasId(job_data[j])}}

\* lines 123-127
TextToEmbed(item_info) ==
    IF item_info.type = "employee"
    THEN prepare_text_for_employee_embedding(item_info.data.v)
    ELSE prepare_text_for_job_embedding(item_info.data.v)

\* lines 119-131: the records the loop keeps
Kept(item_info) ==
    /\ HasId(item_info.data)
    /\ TextToEmbed(item_info).text # <<>>

\* a record on which the loop raises: the text functions' exception is not caught
Raises(item_info) ==
    /\ HasId(item_info.data)
    /\ ~TextToEmbed(item_info).ok

\* lines 133-138: what is queued for one kept record
Prepared(item_info) ==
    [id       |-> item_info.data.v.id,
     document |-> TextToEmbed(item_info).text,
     meta     |-> [k \in DOMAIN _process_metadata_for_db(item_info.data.v) \cup {"doc_type"} |->
                      IF k = "doc_type" THEN item_info.type
                      ELSE _process_metadata_for_db(item_info.data.v)[k]]]

RECURSIVE PreparedAll(_)
PreparedAll(all_data) ==
    IF all_data = <<>> THEN <<>>
    ELSE (IF Kept(all_data[1]) THEN <<Prepared(all_data[1])>> ELSE <<>>)
         \o PreparedAll(Tail(all_data))

\* a rounding slip: the division rounds down and the short last batch is lost
NumBatches_Floor(total_items) == total_items \div CHROMA_UPSERT_BATCH_SIZE

\* math.ceil(total_items / CHROMA_UPSERT_BATCH_SIZE)
NumBatches(total_items) ==
    (total_items + CHROMA_UPSERT_BATCH_SIZE - 1) \div CHROMA_UPSERT_BATCH_SIZE

Min(a, b) == IF a < b THEN a ELSE b

\* lines 150-155: batch i (from 0) of the queue
BatchSlice(queue, i) ==
    SubSeq(queue, i * CHROMA_UPSERT_BATCH_SIZE + 1,
           Min((i + 1) * CHROMA_UPSERT_BATCH_SIZE, Len(queue)))

RECURSIVE RunBatches(_, _, _, _)
\* lines 149-177: the batches from i on; a batch in fails raises in encode or
\* upsert, the exception is caught and the loop goes on
RunBatches(its, queue, i, fails) ==
    IF i >= NumBatches(Len(queue)) THEN [items |-> its, log |-> <<>>, batches |-> <<>>]
    ELSE LET batch == BatchSlice(queue, i)
             ok    == (i + 1) \notin fails
             rest  == RunBatches(IF ok THEN Upsert(its, batch) ELSE its, queue, i + 1, fails)
         IN  [items   |-> rest.items,
              log     |-> (IF ok THEN <<"encode", "upsert">> ELSE <<"encode", "error">>) \o rest.log,
              batches |-> << [j \in 1..Len(batch) |-> batch[j].id] >> \o rest.batches]

\* lines 62-72: nothing to embed; client.get_or_create_collection hands back
\* the collection of that name as it is, or a new empty one
SetupEmpty(ex, its) ==
    [exists |-> TRUE, items |-> IF ex THEN its ELSE EmptyItems,
     outcome |-> "returned", path |-> "empty",
     log |-> <<"get_or_create">>, batches |-> <<>>]

\* a staleness check that always finds the index stale
ShouldRecreate_Always(db_item_count, ids) == TRUE

\* line 88
ShouldRecreate(db_item_count, ids) == db_item_count # Cardinality(ids)

\* a freshness check that takes an index of one item for unpopulated
UseExisting_MoreThanOne(db_item_count, ids) ==
    /\ db_item_count = Cardinality(ids)
    /\ db_item_count > 1

\* line 101
UseExisting(db_item_count, ids) ==
    /\ ~ShouldRecreate(db_item_count, ids)
    /\ db_item_count = Cardinality(ids)
    /\ db_item_count > 0

\* lines 109-180: embed and store into the collection opened by lines 81-107
Populate(its, all_data, fails, path, log) ==
    IF \E i \in 1..Len(all_data) : Raises(all_data[i])
    THEN [exists |-> TRUE, items |-> its, outcome |-> "raised", path |-> path,
          log |-> log, batches |-> <<>>]
    ELSE LET queue == PreparedAll(all_data)
             run   == RunBatches(its, queue, 0, fails)
         IN  IF queue = <<>>
             THEN [exists |-> TRUE, items |-> its, outcome |-> "returned", path |-> path,
                   log |-> log, batches |-> <<>>]
             ELSE [exists |-> TRUE, items |-> run.items, outcome |-> "returned",
                   path |-> path, log |-> log \o run.log, batches |-> run.batches]

\* the whole of setup_chromadb_collection on the collection (ex, its)
setup_chromadb_collection(ex, its, employee_data, job_data, fails) ==
    LET all_data == AllDataForEmbedding(employee_data, job_data)
        ids      == CurrentDocIds(employee_data, job_data)
        count    == Cardinality(DOMAIN its)
    IN  IF all_data = <<>> THEN SetupEmpty(ex, its)
        ELSE IF ~ex
             THEN Populate(EmptyItems, all_data, fails, "create", <<"get", "error", "create">>)
        ELSE IF ShouldRecreate(count, ids)
             THEN Populate(EmptyItems, all_data, fails, "recreate",
                           <<"get", "count", "delete", "create">>)
        ELSE IF UseExisting(count, ids)
             THEN [exists |-> TRUE, items |-> its, outcome |-> "returned", path |-> "fresh",
                   log |-> <<"get", "count">>, batches |-> <<>>]
        ELSE Populate(its, all_data, fails, "reuse", <<"get", "count">>)

(***************************************************************************)
(* talent_recommender.py: recommend_talent_from_db                         *)
(***************************************************************************)
\* line 28
InitialQueryCount(num_results) ==
    IF num_results * 5 > 10 THEN num_results * 5 ELSE 20

\* lines 31-33: the store-side predicate; "" stands for no predicate
WhereFilter(target_doc_type) ==
    IF target_doc_type \in {"employee", "job"} THEN target_doc_type ELSE ""

IdOrder == <<"a", "b", "c">>

RECURSIVE InsertByDistance(_, _, _)
InsertByDistance(id, sorted, dist) ==
    IF sorted = <<>> THEN <<id>>
    ELSE IF dist[id] < dist[sorted[1]] THEN <<id>> \o sorted
    ELSE <<sorted[1]>> \o InsertByDistance(id, Tail(sorted), dist)

RECURSIVE RankByDistance(_, _)
RankByDistance(ids, dist) ==
    IF ids = <<>> THEN <<>>
    ELSE InsertByDistance(ids[Len(ids)], RankByDistance(SubSeq(ids, 1, Len(ids) - 1), dist), dist)

\* collection.query(query_embeddings, n_results, where, include): the IDs of
\* the entries satisfying the predicate, nearest first, at most n_results
StoreQuery(its, n_results, where, dist) ==
    LET matching == SelectSeq(IdOrder, LAMBDA id :
                        /\ id \in DOMAIN its
                        /\ (where = "" \/ its[id].meta["doc_type"] = where))
        ranked   == RankByDistance(matching, dist)
    IN  SubSeq(ranked, 1, Min(n_results, Len(ranked)))

\* lines 63-94: the candidate of one hit
Candidate(its, id, dist) ==
    LET metadata == its[id].meta
        doc_type == Get(metadata, "doc_type", "unknown")
        common   == [id |-> id,
                     doc_type |-> doc_type,
                     distance |-> dist[id],
                     reasoning |-> <<>>,
                     department |-> Get(metadata, "department", Str(<<"N", "/", "A">>)),
                     profile_or_description |->
                         IF doc_type = "employee"
                         THEN Get(metadata, "profile_summary", Null)
                         ELSE Get(metadata, "description", Str(<<"N", "/", "A">>))]
    IN  IF doc_type = "employee"
        THEN [k \in DOMAIN common \cup {"projects", "languages"} |->
                 IF k \in DOMAIN common THEN common[k]
                 ELSE Get(metadata, k, Str(<<>>))]
        ELSE IF doc_type = "job"
        THEN [k \in DOMAIN common \cup {"responsibilities"} |->
                 IF k \in DOMAIN common THEN common[k]
                 ELSE Get(metadata, k, Str(<<>>))]
        ELSE common

\* line 67: the hit is dropped by the in-loop type check
BackstopDrops(target_doc_type, doc_type, where_filter) ==
    /\ target_doc_type # ""
    /\ target_doc_type # doc_type
    /\ where_filter = ""

RECURSIVE BuildCandidates(_, _, _, _)
\* lines 61-94
BuildCandidates(its, hits, dist, target_doc_type) ==
    IF hits = <<>> THEN <<>>
    ELSE (IF BackstopDrops(target_doc_type,
                           Get(its[hits[1]].meta, "doc_type", "unknown"),
                           WhereFilter(target_doc_type))
          THEN <<>>
          ELSE <<Candidate(its, hits[1], dist)>>)
         \o BuildCandidates(its, Tail(hits), dist, target_doc_type)

AddReason(c, r) == [c EXCEPT !.reasoning = Append(@, r)]

\* a department test that, like the language stage, lets every job through
DepartmentMatches_JobsPass(c, department_filter) ==
    \/ c.doc_type = "job"
    \/ Lower(c.department.v) = Lower(department_filter)

\* line 101
DepartmentMatches(c, department_filter) ==
    Lower(c.department.v) = Lower(department_filter)

RECURSIVE DepartmentStage(_, _)
\* lines 98-104
DepartmentStage(cands, department_filter) ==
    IF department_filter = <<>> THEN cands
    ELSE IF cands = <<>> THEN <<>>
    ELSE (IF DepartmentMatches(cands[1], department_filter)
          THEN <<AddReason(cands[1], [kind |-> "department", text |-> cands[1].department.v, n |-> 0])>>
          ELSE <<>>)
         \o DepartmentStage(Tail(cands), department_filter)

\* a tokenizer that also keeps the words of two characters
ProjectKeywords_TwoOrMore(project_description) ==
    LET words == SelectSeq(Split(project_description), LAMBDA kw : Len(kw) >= 2)
    IN  [i \in 1..Len(words) |-> Lower(words[i])]

\* line 108
ProjectKeywords(project_description) ==
    LET words == SelectSeq(Split(project_description), LAMBDA kw : Len(kw) > 2)
    IN  [i \in 1..Len(words) |-> Lower(words[i])]

\* lines 111-115
TextToSearchIn(c) ==
    IF c.doc_type = "employee" THEN Lower(Get(c, "projects", Str(<<>>)).v)
    ELSE IF c.doc_type = "job"
    THEN Lower(Get(c, "responsibilities", Str(<<>>)).v \o <<" ">>
               \o Get(c, "profile_or_description", Str(<<>>)).v)
    ELSE <<>>

\* line 117
MatchedKeywordsCount(c, keywords) ==
    Cardinality({i \in 1..Len(keywords) : Contains(TextToSearchIn(c), keywords[i])})

\* lines 109-119
KeywordStage(cands, project_description) ==
    LET keywords == ProjectKeywords(project_description)
    IN  IF keywords = <<>> THEN cands
        ELSE [i \in 1..Len(cands) |->
                 IF MatchedKeywordsCount(cands[i], keywords) > 0
                 THEN AddReason(cands[i], [kind |-> "keyword", text |-> <<>>,
                                           n |-> MatchedKeywordsCount(cands[i], keywords)])
                 ELSE cands[i]]

\* a language test satisfied by any one of the required languages
AllLangsMet_AnyLanguage(c, required_languages) ==
    \E i \in 1..Len(required_languages) :
        Contains(Lower(Get(c, "languages", Str(<<>>)).v), Lower(required_languages[i]))

\* lines 128-137
AllLangsMet(c, required_languages) ==
    \A i \in 1..Len(required_languages) :
        Contains(Lower(Get(c, "languages", Str(<<>>)).v), Lower(required_languages[i]))

RECURSIVE LanguageStage(_, _)
\* lines 123-144
LanguageStage(cands, required_languages) ==
    IF required_languages = <<>> THEN cands
    ELSE IF cands = <<>> THEN <<>>
    ELSE (IF cands[1].doc_type = "employee"
          THEN IF AllLangsMet(cands[1], required_languages)
               THEN <<AddReason(cands[1], [kind |-> "language",
                                           text |-> JoinStr(required_languages, CommaSpace),
                                           n |-> 0])>>
               ELSE <<>>
          ELSE <<cands[1]>>)
         \o LanguageStage(Tail(cands), required_languages)

\* a sort on the distance alone
KeyBefore_DistanceOnly(a, b) == a.distance < b.distance

\* line 148: the sort key order, (-len(reasoning), distance)
KeyBefore(a, b) ==
    \/ Len(a.reasoning) > Len(b.reasoning)
    \/ (Len(a.reasoning) = Len(b.reasoning) /\ a.distance < b.distance)

RECURSIVE InsertByKey(_, _)
InsertByKey(c, sorted) ==
    IF sorted = <<>> THEN <<c>>
    ELSE IF KeyBefore(c, sorted[1]) THEN <<c>> \o sorted
    ELSE <<sorted[1]>> \o InsertByKey(c, Tail(sorted))

RECURSIVE SortCandidates(_)
\* list.sort(key=...): stable
SortCandidates(cands) ==
    IF cands = <<>> THEN <<>>
    ELSE InsertByKey(cands[Len(cands)], SortCandidates(SubSeq(cands, 1, Len(cands) - 1)))

\* line 150
Truncate(cands, num_results) == SubSeq(cands, 1, Min(num_results, Len(cands)))

NoQuery == [outcome |-> "none", n_results |-> 0, fallback |-> FALSE, hits |-> <<>>,
            built |-> <<>>, afterDepartment |-> <<>>, afterKeyword |-> <<>>,
            afterLanguage |-> <<>>, result |-> <<>>]

\* a test for no hits that reads the first hit list of a result without one
NoHits_IndexError(n, fallback) ==
    [NoQuery EXCEPT !.outcome = "raised", !.n_results = n, !.fallback = fallback]

\* lines 57-59: the query has no hit, an empty list is returned
NoHits(n, fallback) ==
    [NoQuery EXCEPT !.outcome = "returned", !.n_results = n, !.fallback = fallback]

\* the whole of recommend_talent_from_db; queryFails: the first
\* collection.query call raises
recommend_talent_from_db(its, project_description, num_results, department_filter, required_languages, target_doc_type, queryFails, dist) ==
    LET where  == WhereFilter(target_doc_type)
        n      == InitialQueryCount(num_results)
        hits   == IF queryFails THEN StoreQuery(its, n, "", dist)
                  ELSE StoreQuery(its, n, where, dist)
        built  == BuildCandidates(its, hits, dist, target_doc_type)
        dept   == DepartmentStage(built, department_filter)
        kw     == KeywordStage(dept, project_description)
        lang   == LanguageStage(kw, required_languages)
    IN  IF queryFails /\ where = ""
        THEN [NoQuery EXCEPT !.outcome = "returned", !.n_results = n]
        ELSE IF department_filter # <<>> /\ \E i \in 1..Len(built) : built[i].department.t # "str"
        THEN [NoQuery EXCEPT !.outcome = "raised", !.n_results = n, !.fallback = queryFails]
        ELSE IF hits = <<>> THEN NoHits(n, queryFails)
        ELSE [outcome |-> "returned", n_results |-> n, fallback |-> queryFails,
              hits |-> hits, built |-> built, afterDepartment |-> dept,
              afterKeyword |-> kw, afterLanguage |-> lang,
              result |-> Truncate(SortCandidates(lang), num_results)]

(***************************************************************************)
(* The state machine.                                                      *)
(***************************************************************************)
VARIABLES
    exists,     \* the client holds a collection of the configured name
    items,      \* its entries, by ID
    op,         \* the call whose result the caller holds: "idle", "setup" or "recommend"
    s,          \* that setup_chromadb_collection call: arguments, faults, result
    q           \* that recommend_talent_from_db call: arguments, faults, result

vars == <<exists, items, op, s, q>>

SeqsUpTo(S, n) == UNION {[1..m -> S] : m \in 0..n}

\* inputs of a query
Descriptions == { <<"W","e","b"," ","d","b">>, <<"d","b">> }
Departments  == { <<>>, <<"r","D">> }
LanguageLists == { <<>>, << <<"e","N">> >>, << <<"k","o">>, <<"E","n">> >> }
TargetDocTypes == {"", "employee", "job"}
Distances == {1, 2}

NoSetup == [prevExists |-> FALSE, prevItems |-> EmptyItems,
            employee_data |-> <<>>, job_data |-> <<>>, fails |-> {},
            outcome |-> "none", path |-> "none", log |-> <<>>, batches |-> <<>>]

NoRecommend == [project_description |-> <<>>, num_results |-> 0,
                department_filter |-> <<>>, required_languages |-> <<>>,
                target_doc_type |-> "", queryFails |-> FALSE, res |-> NoQuery]

Init ==
    /\ exists = FALSE
    /\ items = EmptyItems
    /\ op = "idle"
    /\ s = NoSetup
    /\ q = NoRecommend

\* one call of setup_chromadb_collection(client, name, employee_data, job_data, model)
Setup ==
    /\ op = "idle"
    /\ \E employee_data \in SeqsUpTo(EmployeePool, MaxRecs) :
       \E job_data \in SeqsUpTo(JobPool, MaxRecs - Len(employee_data)) :
       \E fails \in SUBSET (1..Len(setup_chromadb_collection(exists, items, employee_data, job_data, {}).batches)) :
          LET r == setup_chromadb_collection(exists, items, employee_data, job_data, fails)
          IN  /\ exists' = r.exists
              /\ items' = r.items
              /\ op' = "setup"
              /\ s' = [prevExists |-> exists, prevItems |-> items,
                       employee_data |-> employee_data, job_data |-> job_data,
                       fails |-> fails, outcome |-> r.outcome, path |-> r.path,
                       log |-> r.log, batches |-> r.batches]
              /\ q' = NoRecommend

\* one call of recommend_talent_from_db on the collection setup returned
Recommend ==
    /\ op = "idle"
    /\ exists
    /\ \E project_description \in Descriptions, num_results \in 1..MaxK,
          department_filter \in Departments, required_languages \in LanguageLists,
          target_doc_type \in TargetDocTypes, queryFails \in BOOLEAN,
          dist \in [DOMAIN items -> Distances] :
        /\ q' = [project_description |-> project_description, num_results |-> num_results,
                 department_filter |-> department_filter,
                 required_languages |-> required_languages,
                 target_doc_type |-> target_doc_type, queryFails |-> queryFails,
                 res |-> recommend_talent_from_db(items, project_description, num_results,
                            department_filter, required_languages, target_doc_type,
                            queryFails, dist)]
        /\ op' = "recommend"
        /\ s' = NoSetup
        /\ UNCHANGED <<exists, items>>

\* the call is over: the caller is done with its result (single-threaded,
\* one call start-to-finish before the next)
Return ==
    /\ op # "idle"
    /\ op' = "idle"
    /\ s' = NoSetup
    /\ q' = NoRecommend
    /\ UNCHANGED <<exists, items>>

Next == Setup \/ Recommend \/ Return

Spec == Init /\ [][Next]_vars

(***************************************************************************)
(* Properties.                                                             *)
(***************************************************************************)
Max(a, b) == IF a > b THEN a ELSE b

\* the most batches one setup of the model can run
MaxBatches == (MaxRecs + CHROMA_UPSERT_BATCH_SIZE - 1) \div CHROMA_UPSERT_BATCH_SIZE

\* a record that has an ID and whose embedding text can be built
WellFormed(item_info) == HasId(item_info.data) /\ TextToEmbed(item_info).ok

\* the IDs of the well-formed records of the last setup call, in record order
WellFormedIdSeq ==
    LET wf == SelectSeq(AllDataForEmbedding(s.employee_data, s.job_data), WellFormed)
    IN  [i \in 1..Len(wf) |-> wf[i].data.v.id]

\* the last setup call, run again on the collection it left behind
Rerun(fails) == setup_chromadb_collection(exists, items, s.employee_data, s.job_data, fails)

\* C1: with a variant filter of 'employee' or 'job', every returned result has
\* that doc_type, whether the filtered store query succeeded or raised and the
\* unfiltered fallback query was used.
C1_VariantFilterEnforced ==
    (op = "recommend" /\ q.target_doc_type \in {"employee", "job"}) =>
        \A i \in 1..Len(q.res.result) : q.res.result[i].doc_type = q.target_doc_type

\* C2: with both lists empty, setup returns, from any prior index state, a
\* queryable index whose item count is zero, and reports no error.
C2_EmptyRecordsGiveEmptyIndex ==
    (op = "setup" /\ s.employee_data = <<>> /\ s.job_data = <<>>) =>
        /\ s.outcome = "returned"
        /\ exists
        /\ Cardinality(DOMAIN items) = 0

\* C3: for every num_results k >= 1 the store is asked for max(k * 5, 20)
\* candidates.
C3_OverFetchIsMax ==
    op = "recommend" => q.res.n_results = Max(q.num_results * 5, 20)

\* C4: when the index exists and its item count differs from the number of
\* distinct record IDs, setup deletes and rebuilds it: after a setup in which
\* no batch fails the index holds exactly the IDs of the well-formed records
\* and no entry of the previous index that is absent from the records.
C4_StaleIndexRebuilt ==
    ( /\ op = "setup"
      /\ s.outcome = "returned"
      /\ s.prevExists
      /\ Cardinality(DOMAIN s.prevItems)
            # Cardinality(CurrentDocIds(s.employee_data, s.job_data))
      /\ s.fails = {} ) =>
        /\ \E i \in 1..Len(s.log) : s.log[i] = "delete"
        /\ DOMAIN items = Range(WellFormedIdSeq)
        /\ \A id \in DOMAIN s.prevItems :
              id \notin CurrentDocIds(s.employee_data, s.job_data) => id \notin DOMAIN items

\* C5 (as claimed): a second setup with the same records leaves the item count
\* and the ID set unchanged, for every outcome of the first run.
C5_RerunUnchangedAlways ==
    op = "setup" =>
        \A fails \in SUBSET (1..MaxBatches) : DOMAIN Rerun(fails).items = DOMAIN items

\* C5 (amended): a second setup with the same records leaves the item count
\* and the ID set unchanged whenever the first run left the index with as
\* many items as the records have distinct IDs.
C5_RerunUnchangedWhenCountsMatch ==
    ( /\ op = "setup"
      /\ Cardinality(DOMAIN items) = Cardinality(CurrentDocIds(s.employee_data, s.job_data)) ) =>
        \A fails \in SUBSET (1..MaxBatches) :
            /\ DOMAIN Rerun(fails).items = DOMAIN items
            /\ Cardinality(DOMAIN Rerun(fails).items) = Cardinality(DOMAIN items)

\* C5 witness: a first run that rebuilt the whole index, so that the second
\* run finds the counts equal.
C5_Witness ==
    /\ op = "setup"
    /\ s.path = "recreate"
    /\ Len(s.batches) = 2
    /\ Cardinality(DOMAIN items) = Cardinality(CurrentDocIds(s.employee_data, s.job_data))
    /\ Cardinality(DOMAIN items) >= 2

\* C6: a rebuild of n well-formed records attempts exactly ceil(n / B) batches
\* in record order, each of B consecutive records but a possibly shorter last
\* one; a failing batch does not stop the later ones, setup still returns the
\* index, and the index then holds exactly the IDs of the batches that did
\* not fail.
C6_BatchesIndependent ==
    ( /\ op = "setup"
      /\ s.path \in {"create", "recreate", "reuse"}
      /\ \A i \in 1..Len(s.employee_data) + Len(s.job_data) :
            ~Raises(AllDataForEmbedding(s.employee_data, s.job_data)[i]) ) =>
        LET n == Len(WellFormedIdSeq)
            B == CHROMA_UPSERT_BATCH_SIZE
        IN  /\ s.outcome = "returned"
            /\ Len(s.batches) * B >= n
            /\ (Len(s.batches) - 1) * B < n \/ (n = 0 /\ s.batches = <<>>)
            /\ \A i \in 1..Len(s.batches) :
                  /\ s.batches[i] = SubSeq(WellFormedIdSeq, (i - 1) * B + 1, Min(i * B, n))
                  /\ (i < Len(s.batches) => Len(s.batches[i]) = B)
                  /\ Len(s.batches[i]) >= 1
            /\ DOMAIN items
                  = UNION {Range(s.batches[i]) : i \in (1..Len(s.batches)) \ s.fails}

\* C6 witness: two batches of sizes B and 1, the first failed, the second
\* stored.
C6_Witness ==
    /\ op = "setup"
    /\ Len(s.batches) = 2
    /\ Len(s.batches[1]) = CHROMA_UPSERT_BATCH_SIZE
    /\ Len(s.batches[2]) = 1
    /\ s.fails = {1}
    /\ DOMAIN items = Range(s.batches[2])
    /\ Range(s.batches[1]) \cap Range(s.batches[2]) = {}

\* C7: a record without 'id' (or that is no mapping) is excluded from the index
\* and from the ID set of the staleness check, and its presence changes
\* nothing: the resulting index ID set is that of the same setup with the
\* malformed records removed.
C7_MalformedIsolated ==
    op = "setup" =>
        LET clean_e == SelectSeq(s.employee_data, HasId)
            clean_j == SelectSeq(s.job_data, HasId)
        IN  /\ CurrentDocIds(s.employee_data, s.job_data) = CurrentDocIds(clean_e, clean_j)
            /\ DOMAIN items
                  = DOMAIN setup_chromadb_collection(s.prevExists, s.prevItems,
                                                     clean_e, clean_j, s.fails).items

\* C8: in the returned list every adjacent pair (a, b) has more reasons in a
\* than in b, or as many and a.distance <= b.distance.
C8_ResultOrdered ==
    op = "recommend" =>
        \A i \in 1..(Len(q.res.result) - 1) :
            LET a == q.res.result[i]
                b == q.res.result[i + 1]
            IN  \/ Len(a.reasoning) > Len(b.reasoning)
                \/ (Len(a.reasoning) = Len(b.reasoning) /\ a.distance <= b.distance)

\* C8 witness: a result that ranks a farther candidate with more reasons
\* before a nearer one, and two candidates with equally many reasons by
\* distance.
C8_Witness ==
    /\ op = "recommend"
    /\ \E i \in 1..(Len(q.res.result) - 1) :
          /\ Len(q.res.result[i].reasoning) > Len(q.res.result[i + 1].reasoning)
          /\ q.res.result[i].distance > q.res.result[i + 1].distance
    /\ \E i \in 1..(Len(q.res.result) - 1) :
          /\ Len(q.res.result[i].reasoning) = Len(q.res.result[i + 1].reasoning)
          /\ q.res.result[i].distance < q.res.result[i + 1].distance

\* C9: with required languages given, an employee candidate survives the
\* language stage iff every required language, lower-cased, is a substring of
\* its lower-cased flattened language field; a job candidate always survives.
C9_LanguageFilterIff ==
    (op = "recommend" /\ q.required_languages # <<>>) =>
        \A i \in 1..Len(q.res.afterKeyword) :
            LET c == q.res.afterKeyword[i]
                survives == \E j \in 1..Len(q.res.afterLanguage) :
                                q.res.afterLanguage[j].id = c.id
            IN  /\ c.doc_type = "job" => survives
                /\ c.doc_type = "employee" =>
                      (survives <=>
                          \A l \in 1..Len(q.required_languages) :
                              Contains(Lower(c.languages.v), Lower(q.required_languages[l])))

\* C9 witness: one employee kept, one employee dropped for a missing
\* language, one job passed through.
C9_Witness ==
    /\ op = "recommend"
    /\ Len(q.required_languages) = 2
    /\ \E i \in 1..Len(q.res.afterKeyword) :
          /\ q.res.afterKeyword[i].doc_type = "employee"
          /\ \A j \in 1..Len(q.res.afterLanguage) :
                q.res.afterLanguage[j].id # q.res.afterKeyword[i].id
    /\ \E j \in 1..Len(q.res.afterLanguage) : q.res.afterLanguage[j].doc_type = "employee"
    /\ \E j \in 1..Len(q.res.afterLanguage) : q.res.afterLanguage[j].doc_type = "job"

\* C10: with a department filter, every returned result, employee or job, has
\* a department equal to the filter ignoring case and carries the
\* department-match reason as the first entry of its reasoning.
C10_DepartmentFilter ==
    (op = "recommend" /\ q.department_filter # <<>>) =>
        \A i \in 1..Len(q.res.result) :
            LET c == q.res.result[i]
            IN  /\ Lower(c.department.v) = Lower(q.department_filter)
                /\ Len(c.reasoning) >= 1
                /\ c.reasoning[1].kind = "department"
                /\ c.reasoning[1].text = c.department.v

\* C10 witness: an employee and a job returned for a filter spelled in
\* another case than their departments, another candidate removed.
C10_Witness ==
    /\ op = "recommend"
    /\ q.department_filter # <<>>
    /\ \E i \in 1..Len(q.res.result) :
          /\ q.res.result[i].doc_type = "employee"
          /\ q.res.result[i].department.v # q.department_filter
    /\ \E i \in 1..Len(q.res.result) : q.res.result[i].doc_type = "job"
    /\ Len(q.res.afterDepartment) < Len(q.res.built)

\* C11: when the index exists with as many items as the records have distinct
\* IDs, and at least one, setup makes no embedding call, no upsert, no delete
\* and no create, and returns the existing index with every entry unchanged,
\* also when the records' ID set differs from the index's ID set.
C11_FreshIndexUntouched ==
    ( /\ op = "setup"
      /\ s.prevExists
      /\ Cardinality(DOMAIN s.prevItems)
            = Cardinality(CurrentDocIds(s.employee_data, s.job_data))
      /\ Cardinality(DOMAIN s.prevItems) > 0 ) =>
        /\ \A i \in 1..Len(s.log) : s.log[i] \notin {"encode", "upsert", "delete", "create"}
        /\ s.batches = <<>>
        /\ s.outcome = "returned"
        /\ exists
        /\ items = s.prevItems

\* C11 witness: a setup on an index of the same count as the records but of
\* another ID set (one record swapped for another), left as it was.
C11_Witness ==
    /\ op = "setup"
    /\ s.prevExists
    /\ Cardinality(DOMAIN s.prevItems) > 0
    /\ Cardinality(DOMAIN s.prevItems)
          = Cardinality(CurrentDocIds(s.employee_data, s.job_data))
    /\ DOMAIN s.prevItems # CurrentDocIds(s.employee_data, s.job_data)
    /\ Range(WellFormedIdSeq) = CurrentDocIds(s.employee_data, s.job_data)
    /\ s.path = "fresh"
    /\ items = s.prevItems

\* the text of a candidate that the keyword stage looks at, as stored: an
\* employee's projects, a job's responsibilities and description
VariantText(c) ==
    IF c.doc_type = "employee" THEN c.projects.v
    ELSE IF c.doc_type = "job"
    THEN c.responsibilities.v \o <<" ">> \o c.profile_or_description.v
    ELSE <<>>

\* the words of the last query that are longer than 2 characters, as typed
LongTokens == {w \in Range(Split(q.project_description)) : Len(w) > 2}

\* candidate a is candidate b with exactly one keyword-match reason appended
KeywordReasonAppended(b, a) ==
    /\ [a EXCEPT !.reasoning = b.reasoning] = b
    /\ Len(a.reasoning) = Len(b.reasoning) + 1
    /\ SubSeq(a.reasoning, 1, Len(b.reasoning)) = b.reasoning
    /\ a.reasoning[Len(a.reasoning)].kind = "keyword"

\* C12 (as claimed): the keyword stage keeps every candidate, in number and
\* order, and appends one keyword-match reason to a candidate exactly when a
\* query token longer than 2 characters occurs as a substring of the
\* candidate's variant-specific text.
C12_KeywordStageAsClaimed ==
    op = "recommend" =>
        /\ Len(q.res.afterKeyword) = Len(q.res.afterDepartment)
        /\ \A i \in 1..Len(q.res.afterDepartment) :
              LET b == q.res.afterDepartment[i]
                  a == q.res.afterKeyword[i]
              IN  IF \E w \in LongTokens : Contains(VariantText(b), w)
                  THEN KeywordReasonAppended(b, a)
                  ELSE a = b

\* C12 (amended): the keyword stage keeps every candidate, in number and
\* order, and appends one keyword-match reason to a candidate exactly when a
\* query token longer than 2 characters, lower-cased, occurs as a substring of
\* the candidate's lower-cased variant-specific text.
C12_KeywordStageIgnoringCase ==
    op = "recommend" =>
        /\ Len(q.res.afterKeyword) = Len(q.res.afterDepartment)
        /\ \A i \in 1..Len(q.res.afterDepartment) :
              LET b == q.res.afterDepartment[i]
                  a == q.res.afterKeyword[i]
              IN  IF \E w \in LongTokens : Contains(Lower(VariantText(b)), Lower(w))
                  THEN KeywordReasonAppended(b, a)
                  ELSE a = b

\* C12 witness: a query with a word of two characters and a longer one, run
\* over a candidate that receives the keyword reason for a word spelled in
\* another case than the query's and a candidate that receives none.
C12_Witness ==
    /\ op = "recommend"
    /\ LongTokens # {}
    /\ LongTokens # Range(Split(q.project_description))
    /\ Len(q.res.afterKeyword) >= 2
    /\ \E i \in 1..Len(q.res.afterKeyword) :
          /\ KeywordReasonAppended(q.res.afterDepartment[i], q.res.afterKeyword[i])
          /\ \A w \in LongTokens : ~Contains(VariantText(q.res.afterDepartment[i]), w)
    /\ \E i \in 1..Len(q.res.afterKeyword) :
          q.res.afterKeyword[i] = q.res.afterDepartment[i]

\* C13: a query never raises for want of candidates: when the store has no
\* hit, or no candidate is left after the variant, department or language
\* stage, the call returns the empty list, every later stage leaving the
\* empty list empty.
C13_EmptyFlowsThrough ==
    op = "recommend" =>
        /\ ( \/ DOMAIN items = {}
             \/ q.res.hits = <<>>
             \/ q.res.built = <<>>
             \/ q.res.afterDepartment = <<>>
             \/ q.res.afterLanguage = <<>> ) =>
                (q.res.outcome = "returned" /\ q.res.result = <<>>)
        /\ q.res.built = <<>> => q.res.afterDepartment = <<>>
        /\ q.res.afterDepartment = <<>> => q.res.afterKeyword = <<>>
        /\ q.res.afterKeyword = <<>> => q.res.afterLanguage = <<>>

\* C13 witness: a query with every filter set, answered from an index that
\* holds nothing.
C13_Witness ==
    /\ op = "recommend"
    /\ exists
    /\ DOMAIN items = {}
    /\ ~q.queryFails
    /\ q.department_filter # <<>>
    /\ q.required_languages # <<>>
    /\ q.res.hits = <<>>
    /\ q.res.outcome = "returned"
    /\ q.res.result = <<>>

\* candidate c carries a reason of the given kind
HasReason(c, kind) == \E r \in 1..Len(c.reasoning) : c.reasoning[r].kind = kind

\* C14: every stage that filters attaches a reason to every candidate that
\* survives it: with required languages given every candidate after the
\* language stage, jobs included, carries a reason of that stage; with a
\* department filter every candidate after the department stage carries the
\* department reason; and every candidate that passes the variant backstop of
\* a fallback query carries a reason of the backstop.
C14_FilterStagesAttachReasons ==
    op = "recommend" =>
        /\ q.required_languages # <<>> =>
              \A i \in 1..Len(q.res.afterLanguage) :
                  HasReason(q.res.afterLanguage[i], "language")
        /\ q.department_filter # <<>> =>
              \A i \in 1..Len(q.res.afterDepartment) :
                  HasReason(q.res.afterDepartment[i], "department")
        /\ (q.res.fallback /\ q.target_doc_type # "") =>
              \A i \in 1..Len(q.res.built) :
                  HasReason(q.res.built[i], "variant")

\* C15: a record with an ID whose embedding text cannot be built is skipped
\* and the sync goes on: a setup that embeds, none of whose batches fails,
\* returns, and the index then holds every well-formed record of the call (on
\* a new or rebuilt index, exactly those).
C15_UnembeddableSkipped ==
    ( /\ op = "setup"
      /\ s.path \in {"create", "recreate", "reuse"}
      /\ s.fails = {} ) =>
        /\ s.outcome = "returned"
        /\ Range(WellFormedIdSeq) \subseteq DOMAIN items
        /\ s.path \in {"create", "recreate"} => DOMAIN items = Range(WellFormedIdSeq)

\* the index as it stands after the first k batches of the last setup call
ItemsAfterBatch(k) ==
    LET queue == PreparedAll(AllDataForEmbedding(s.employee_data, s.job_data))
        start == IF s.path = "reuse" THEN s.prevItems ELSE EmptyItems
    IN  RunBatches(start,
                   SubSeq(queue, 1, Min(k * CHROMA_UPSERT_BATCH_SIZE, Len(queue))),
                   0, s.fails).items

\* the IDs stored by the batches 1..k of the last setup call
WrittenUpTo(k) == UNION {Range(s.batches[j]) : j \in (1..k) \ s.fails}

\* the lists of the last setup call that hold a record of the given ID
ListsOf(id) ==
    {"employee" : i \in {j \in 1..Len(s.employee_data) :
                            HasId(s.employee_data[j]) /\ s.employee_data[j].v.id = id}}
    \cup {"job" : i \in {j \in 1..Len(s.job_data) :
                            HasId(s.job_data[j]) /\ s.job_data[j].v.id = id}}

\* C16: every entry's doc_type is 'employee' or 'job'; an entry written by a
\* setup has the doc_type of the list its record was supplied in, whatever
\* 'doc_type' field the record carries, and keeps, to the end of that setup,
\* the doc_type it was first written with, also when its ID occurs in both
\* lists; every candidate a query builds has the doc_type of its entry.
C16_DocTypeFixed ==
    /\ \A id \in DOMAIN items : items[id].meta.doc_type \in {"employee", "job"}
    /\ (op = "setup" /\ s.outcome = "returned") =>
          \A k \in 1..Len(s.batches) : \A id \in WrittenUpTo(k) :
              /\ ItemsAfterBatch(k)[id].meta.doc_type \in ListsOf(id)
              /\ items[id].meta.doc_type = ItemsAfterBatch(k)[id].meta.doc_type
    /\ op = "recommend" =>
          \A i \in 1..Len(q.res.built) :
              q.res.built[i].doc_type = items[q.res.built[i].id].meta.doc_type

=============================================================================
